---------------------------- MODULE Spec2Model ----------------------------
(***************************************************************************)
(* OHLCV acquisition engine of CCXT-CryptoAna: the provider ranking cache  *)
(* (save_success_exchange / get_prioritized_exchanges), the fallback walk  *)
(* over providers (fetch_ohlcv_from_multiple_exchanges, fetch_data), the   *)
(* gap detector (get_missing_timeframes), the backfill driver              *)
(* (fetch_and_save_ohlcv_data) and the store (Database): CSV files or the   *)
(* PostgreSQL table ohlcv_data.                                            *)
(*                                                                         *)
(* Time is counted in candle intervals of the "1h" timeframe: timestamp t  *)
(* is T0 + t hours.  A candle is [ts, val]; val names the provider the     *)
(* candle came from, which makes candles of different providers for the    *)
(* same timestamp different rows.                                          *)
(***************************************************************************)
EXTENDS Integers, Sequences, FiniteSets, TLC

----------------------------------------------------------------------------
(* Bounds of the model *)

\* how many entries of TOP_EXCHANGES / SUPPORTED_EXCHANGES are modelled
NProviders == 3
\* timestamps of the model are 0 .. MaxTime
MaxTime == 3
\* backfill runs in one behaviour
MaxRuns == 2
\* stand-alone orchestrator calls in one behaviour
MaxCalls == 3

\* the timestamps 0..GapMaxTime of the frames given to get_missing_timeframes
GapMaxTime == 8

\* the most rows of a frame given to get_missing_timeframes
MaxStored == 3

----------------------------------------------------------------------------
(* Constants of the program *)

None == "None"

\* None where a DataFrame is expected: a frame no call ever builds
NoneDf == << [ts |-> -1, val |-> None] >>

AllTopExchanges ==
    << "binance", "coinbase", "okx", "bybit", "kucoin",
       "bitfinex", "kraken", "huobi", "gate", "mexc" >>

AllSupportedExchanges ==
    << "binance", "okx", "bybit", "huobi", "gate",
       "kucoin", "bitget", "coinbase", "kraken" >>

TOP_EXCHANGES == SubSeq(AllTopExchanges, 1, NProviders)

SUPPORTED_EXCHANGES == SubSeq(AllSupportedExchanges, 1, NProviders)

Range(s) == { s[i] : i \in 1..Len(s) }

Providers == Range(TOP_EXCHANGES) \cup Range(SUPPORTED_EXCHANGES)

\* the cache keys (symbol BTC/USDT, timeframe) the program uses here
Keys == { "1h", "1d" }

\* config['data']['enable_dynamic_sorting'], at its default
enable_dynamic_sorting == TRUE

\* config['data']['enable_data_filling'], at its default
enable_data_filling == TRUE

\* limit = min(limit, 1000)
PageLimit == 1000

Times == 0..MaxTime

----------------------------------------------------------------------------
(* Sequences *)

RECURSIVE Filter(_, _)
\* the elements of s that are in the set S, in the order of s
Filter(s, S) ==
    IF s = << >> THEN << >>
    ELSE IF Head(s) \in S THEN << Head(s) >> \o Filter(Tail(s), S)
    ELSE Filter(Tail(s), S)

RECURSIVE RemoveFirst(_, _)
\* list.remove(x): s without the first occurrence of x
RemoveFirst(s, x) ==
    IF s = << >> THEN << >>
    ELSE IF Head(s) = x THEN Tail(s)
    ELSE << Head(s) >> \o RemoveFirst(Tail(s), x)

NoDuplicates(s) == \A i, j \in 1..Len(s) : i # j => s[i] # s[j]

Min(S) == CHOOSE x \in S : \A y \in S : x <= y

Max(S) == CHOOSE x \in S : \A y \in S : x >= y

MinOf(a, b) == IF a <= b THEN a ELSE b

RECURSIVE Ascending(_)
\* the numbers of S in ascending order
Ascending(S) ==
    IF S = {} THEN << >>
    ELSE << Min(S) >> \o Ascending(S \ { Min(S) })

----------------------------------------------------------------------------
(* ProviderRegistry: the ranking cache success_exchanges.json *)

\* (mutant) the exchange is put in front without being removed first
save_success_exchange_NoRemove(doc, key, exchange_id) ==
    [doc EXCEPT ![key] = << exchange_id >> \o doc[key]]

\* (mutant) the list is replaced by the exchange alone
save_success_exchange_Reset(doc, key, exchange_id) ==
    [doc EXCEPT ![key] = << exchange_id >>]

\* success_exchanges[symbol][timeframe] with exchange_id moved to the front
save_success_exchange(doc, key, exchange_id) ==
    LET lst == doc[key]
        rest == IF exchange_id \in Range(lst) THEN RemoveFirst(lst, exchange_id)
                ELSE lst
    IN  [doc EXCEPT ![key] = << exchange_id >> \o rest]

\* (mutant) every exchange of TOP_EXCHANGES is appended, listed or not
AppendMissing_All(result, top) == result \o top

RECURSIVE AppendMissing(_, _)
\* for exchange in TOP_EXCHANGES: if exchange not in result: result.append
AppendMissing(result, top) ==
    IF top = << >> THEN result
    ELSE IF Head(top) \in Range(result) THEN AppendMissing(result, Tail(top))
    ELSE AppendMissing(Append(result, Head(top)), Tail(top))

\* (mutant) the list recorded for the key is returned as it is
get_prioritized_exchanges_CacheOnly(doc, key) ==
    IF doc[key] = << >> THEN TOP_EXCHANGES ELSE doc[key]

\* the list recorded for the key, then the rest of TOP_EXCHANGES
get_prioritized_exchanges(doc, key) ==
    IF ~enable_dynamic_sorting THEN TOP_EXCHANGES
    ELSE AppendMissing(Filter(doc[key], Range(TOP_EXCHANGES)), TOP_EXCHANGES)


----------------------------------------------------------------------------
(* Provider capability: what one exchange answers to one fetch_ohlcv call *)

\* a DataFrame of candles of provider p at the timestamps S, oldest first
Frame(S, p) ==
    LET a == Ascending(S)
    IN  [ i \in 1..Len(a) |-> [ts |-> a[i], val |-> p] ]

\* the timestamp sets an exchange can answer a request with: at most
\* `limit` candles, none older than `since`
AnswerSets(since, limit) ==
    { S \in SUBSET Times :
        /\ Cardinality(S) <= limit
        /\ \A t \in S : t >= since }

\* what an attempt on one exchange of main.py comes to:
\* "error" (any exception), "unsupported" (has['fetchOHLCV'] is false),
\* "rows" (fetch_ohlcv returned, possibly nothing)
MainKinds == { "error", "unsupported", "rows" }

\* what an attempt of fetch_data comes to: the except clause that catches it
CoreKinds == { "unavailable", "network", "exchange", "unknown", "rows" }

Timestamps(df) == { df[i].ts : i \in 1..Len(df) }

----------------------------------------------------------------------------
(* FetchOrchestrator of main.py *)

\* (mutant) an answer without rows counts as a success
AttemptOutcome_EmptyOk(kind, rows) ==
    IF kind = "error" THEN "error"
    ELSE IF kind = "unsupported" THEN "unsupported"
    ELSE "success"

\* the outcome of the attempt on one exchange, as the loop body classifies it
AttemptOutcome(kind, rows) ==
    IF kind = "error" THEN "error"
    ELSE IF kind = "unsupported" THEN "unsupported"
    ELSE IF Len(rows) > 0 THEN "success"
    ELSE "empty"

RECURSIVE WalkExchanges_NoStop(_, _, _, _, _)
\* (mutant) the loop does not return on a success: the last success wins
WalkExchanges_NoStop(exchanges, i, kinds, rows, log) ==
    IF i > Len(exchanges)
    THEN [exchange_id |-> None, df |-> NoneDf, log |-> log]
    ELSE LET p == exchanges[i]
             o == AttemptOutcome(kinds[p], rows[p])
             entry == [provider |-> p, outcome |-> o]
             rest == WalkExchanges_NoStop(exchanges, i + 1, kinds, rows,
                                          Append(log, entry))
         IN  IF o = "success" /\ rest.exchange_id = None
             THEN [exchange_id |-> p, df |-> rows[p], log |-> rest.log]
             ELSE rest

RECURSIVE WalkExchanges_Skip(_, _, _, _, _)
\* (mutant) after an exception the next exchange is skipped
WalkExchanges_Skip(exchanges, i, kinds, rows, log) ==
    IF i > Len(exchanges)
    THEN [exchange_id |-> None, df |-> NoneDf, log |-> log]
    ELSE LET p == exchanges[i]
             o == AttemptOutcome(kinds[p], rows[p])
             entry == [provider |-> p, outcome |-> o]
         IN  IF o = "success"
             THEN [exchange_id |-> p, df |-> rows[p], log |-> Append(log, entry)]
             ELSE WalkExchanges_Skip(exchanges,
                                     IF o = "error" THEN i + 2 ELSE i + 1,
                                     kinds, rows, Append(log, entry))

RECURSIVE WalkExchanges(_, _, _, _, _)
\* the for loop of fetch_ohlcv_from_multiple_exchanges over exchanges[i..]:
\* kinds[p] and rows[p] are what exchange p answers if it is asked, log the
\* attempts printed so far.  Returns the (exchange_id, df) returned, which is
\* (None, None) after the last exchange, and the attempts printed.
WalkExchanges(exchanges, i, kinds, rows, log) ==
    IF i > Len(exchanges)
    THEN [exchange_id |-> None, df |-> NoneDf, log |-> log]
    ELSE LET p == exchanges[i]
             o == AttemptOutcome(kinds[p], rows[p])
             entry == [provider |-> p, outcome |-> o]
         IN  IF o = "success"
             THEN [exchange_id |-> p, df |-> rows[p], log |-> Append(log, entry)]
             ELSE WalkExchanges(exchanges, i + 1, kinds, rows, Append(log, entry))

\* fetch_ohlcv_from_multiple_exchanges: the ranked list, the walk, and the
\* cache after the promotion of the exchange that answered
fetch_ohlcv_from_multiple_exchanges(doc, key, kinds, rows) ==
    LET exchanges == get_prioritized_exchanges(doc, key)
        w == WalkExchanges(exchanges, 1, kinds, rows, << >>)
    IN  [ exchanges   |-> exchanges,
          exchange_id |-> w.exchange_id,
          df          |-> w.df,
          log         |-> w.log,
          doc         |-> IF w.exchange_id # None
                          THEN save_success_exchange(doc, key, w.exchange_id)
                          ELSE doc ]

\* what load_markets of an exchange comes to: an exception, a market list
\* without the symbol, a market list with it
MarketAnswers == { "error", "not_listed", "listed" }

RECURSIVE WalkMarkets(_, _, _, _)
\* the loop of get_markets_from_multiple_exchanges from the i-th exchange on
WalkMarkets(exchanges, i, answers, log) ==
    IF i > Len(exchanges)
    THEN [ exchange_id |-> None, log |-> log ]
    ELSE LET p == exchanges[i]
             entry == [ provider |-> p,
                        outcome  |-> IF answers[p] = "listed"
                                     THEN "success" ELSE answers[p] ]
         IN  IF answers[p] = "listed"
             THEN [ exchange_id |-> p, log |-> Append(log, entry) ]
             ELSE WalkMarkets(exchanges, i + 1, answers, Append(log, entry))

\* get_markets_from_multiple_exchanges: the list ranked for the timeframe
\* "1d", the walk, and the cache after save_success_exchange(symbol, '1d', ..)
get_markets_from_multiple_exchanges(doc, answers) ==
    LET exchanges == get_prioritized_exchanges(doc, "1d")
        w == WalkMarkets(exchanges, 1, answers, << >>)
    IN  [ exchanges   |-> exchanges,
          exchange_id |-> w.exchange_id,
          log         |-> w.log,
          doc         |-> IF w.exchange_id # None
                          THEN save_success_exchange(doc, "1d", w.exchange_id)
                          ELSE doc ]

-----------------------------------------------------------------------------
(* fetch_data of ta_service/core.py *)

\* exchange_list: the requested exchange first, then the others
ExchangeList(exchange_id, auto_fallback) ==
    IF exchange_id # None
    THEN IF auto_fallback
         THEN << exchange_id >>
              \o Filter(SUPPORTED_EXCHANGES, Range(SUPPORTED_EXCHANGES) \ { exchange_id })
         ELSE << exchange_id >>
    ELSE SUPPORTED_EXCHANGES

\* the except clause an attempt ends in; an empty answer raises Exception,
\* which the last clause catches
CoreOutcome(kind, rows) ==
    IF kind = "rows" THEN (IF Len(rows) > 0 THEN "success" ELSE "unknown")
    ELSE kind

RECURSIVE WalkCore_Continue(_, _, _, _, _, _)
\* (mutant) the loop goes on after a failure whatever auto_fallback is
WalkCore_Continue(exchange_list, i, auto_fallback, kinds, rows, acc) ==
    IF i > Len(exchange_list)
    THEN [acc EXCEPT !.raised = TRUE, !.tried_msg = exchange_list]
    ELSE LET p == exchange_list[i]
             o == CoreOutcome(kinds[p], rows[p])
             entry == [provider |-> p, outcome |-> o]
         IN  IF o = "success"
             THEN [acc EXCEPT !.ex_id = p, !.df = rows[p],
                              !.log = Append(acc.log, entry)]
             ELSE WalkCore_Continue(exchange_list, i + 1, auto_fallback,
                                    kinds, rows,
                                    [acc EXCEPT !.log = Append(acc.log, entry),
                                                !.last_error = o,
                                                !.last_exchange_id = p])

RECURSIVE WalkCore(_, _, _, _, _, _)
\* the for loop of fetch_data over exchange_list[i..]; acc carries the log
\* of attempts and last_error / last_exchange_id.  Returns the frame and the
\* exchange returned, or the exception raised: a single attempt's error
\* when auto_fallback is off, else the message naming last_exchange_id,
\* last_error and the whole exchange_list.
WalkCore(exchange_list, i, auto_fallback, kinds, rows, acc) ==
    IF i > Len(exchange_list)
    THEN [acc EXCEPT !.raised = TRUE, !.tried_msg = exchange_list]
    ELSE LET p == exchange_list[i]
             o == CoreOutcome(kinds[p], rows[p])
             entry == [provider |-> p, outcome |-> o]
         IN  IF o = "success"
             THEN [acc EXCEPT !.ex_id = p, !.df = rows[p],
                              !.log = Append(acc.log, entry)]
             ELSE LET failed == [acc EXCEPT !.log = Append(acc.log, entry),
                                            !.last_error = o,
                                            !.last_exchange_id = p]
                  IN  IF ~auto_fallback
                      THEN [failed EXCEPT !.raised = TRUE]
                      ELSE WalkCore(exchange_list, i + 1, auto_fallback,
                                    kinds, rows, failed)

fetch_data(exchange_id, auto_fallback, kinds, rows) ==
    LET exchange_list == ExchangeList(exchange_id, auto_fallback)
        r == WalkCore(exchange_list, 1, auto_fallback, kinds, rows,
                      [ex_id |-> None, df |-> << >>, raised |-> FALSE,
                       log |-> << >>, last_error |-> None,
                       last_exchange_id |-> None, tried_msg |-> << >>])
    IN  [ exchanges |-> exchange_list, exchange_id |-> r.ex_id, df |-> r.df,
          log |-> r.log, raised |-> r.raised, last_error |-> r.last_error,
          last_exchange_id |-> r.last_exchange_id, tried_msg |-> r.tried_msg ]


----------------------------------------------------------------------------
(* Storage: the CSV files BTC_USDT_1h_<exchange_id>.csv of DATA_DIR *)

\* (mutant) a file that exists is left as it is
save_to_csv_Keep(fs, df, exchange_id, ok) ==
    IF ok /\ fs[exchange_id] = NoneDf THEN [fs EXCEPT ![exchange_id] = df]
    ELSE fs

\* Database._save_to_csv: ok is whether df.to_csv could write the file
\* named after the exchange
save_to_csv(fs, df, exchange_id, ok) ==
    IF ok THEN [fs EXCEPT ![exchange_id] = df] ELSE fs

\* Database._load_from_csv without an exchange id: the first file of
\* DATA_DIR.glob, in the order the directory lists them
load_from_csv(fs, ls) ==
    IF ls = << >> THEN NoneDf ELSE fs[ls[1]]

\* the directory listing after a save to the file of exchange_id: a file
\* that exists keeps its place, a new one appears at position pos
ListingAfterSave(ls, exchange_id, ok, pos) ==
    IF ~ok \/ exchange_id \in Range(ls) THEN ls
    ELSE SubSeq(ls, 1, pos - 1) \o << exchange_id >> \o SubSeq(ls, pos, Len(ls))

\* Database._save_to_postgresql when the commit succeeds: one row inserted
\* for each row of df; the table has no key over (symbol, timeframe, timestamp)
save_to_postgresql(tb, df, exchange_id) ==
    tb \o [ i \in 1..Len(df) |->
              [ exchange |-> exchange_id, ts |-> df[i].ts, val |-> df[i].val ] ]

\* Database._load_from_postgresql without an exchange id when the query
\* succeeds: every row of the symbol and timeframe, None if there is none
load_from_postgresql(tb) ==
    IF tb = << >> THEN NoneDf
    ELSE [ i \in 1..Len(tb) |-> [ ts |-> tb[i].ts, val |-> tb[i].val ] ]

\* Database.load_ohlcv_data without an exchange id; query_ok is whether the
\* query went through, a failed one falls back to the CSV files
load_ohlcv_data(db, tb, fs, ls, query_ok) ==
    IF db = "postgresql" /\ query_ok THEN load_from_postgresql(tb)
    ELSE load_from_csv(fs, ls)

\* whether a statement sent to the database can go through
Outcomes(db) == IF db = "postgresql" THEN BOOLEAN ELSE { FALSE }

----------------------------------------------------------------------------
(* DataFrame operations *)

RECURSIVE DropDuplicates(_, _)
\* drop_duplicates(subset=['timestamp']): the first row of each timestamp;
\* seen are the timestamps of the rows kept so far
DropDuplicates(df, seen) ==
    IF df = << >> THEN << >>
    ELSE IF Head(df).ts \in seen THEN DropDuplicates(Tail(df), seen)
    ELSE << Head(df) >> \o DropDuplicates(Tail(df), seen \cup { Head(df).ts })

RECURSIVE InsertSorted(_, _)
\* row put behind the rows of the sorted frame with a timestamp <= its own
InsertSorted(sorted, row) ==
    IF sorted = << >> THEN << row >>
    ELSE IF Head(sorted).ts <= row.ts
         THEN << Head(sorted) >> \o InsertSorted(Tail(sorted), row)
         ELSE << row >> \o sorted

RECURSIVE SortValues(_)
\* sort_values('timestamp')
SortValues(df) ==
    IF df = << >> THEN << >>
    ELSE InsertSorted(SortValues(SubSeq(df, 1, Len(df) - 1)), df[Len(df)])

\* (mutant) the fetched rows come first: on a timestamp of both, they win
Combine_NewFirst(existing_df, df) ==
    SortValues(DropDuplicates(df \o existing_df, {}))

\* (mutant) the fetched rows alone are kept
Combine_NewOnly(existing_df, df) ==
    SortValues(DropDuplicates(df, {}))

\* pd.concat([existing_df, df]).drop_duplicates(...).sort_values(...)
Combine(existing_df, df) ==
    SortValues(DropDuplicates(existing_df \o df, {}))

----------------------------------------------------------------------------
(* GapDetector *)

\* the interval of a timeframe, in hours
Interval(timeframe) ==
    CASE timeframe = "1h" -> 1
      [] timeframe = "2h" -> 2
      [] timeframe = "4h" -> 4
      [] timeframe = "1d" -> 24

\* (mutant) the whole range is not reported for an empty series
WholeRange_None(start_time, end_time) == << >>

\* if df is None or len(df) == 0: return [(start_time, end_time)]
WholeRange(start_time, end_time) == << << start_time, end_time >> >>

\* (mutant) no leading range is reported
LeadingGap_Never(first, start_time) == << >>

\* (mutant) a leading range is reported also when the series starts at start_time
LeadingGap_AtLeast(first, start_time) ==
    IF first >= start_time THEN << << start_time, first >> >> ELSE << >>

\* if df['timestamp'].min() > start_time: append (start_time, min)
LeadingGap(first, start_time) ==
    IF first > start_time THEN << << start_time, first >> >> ELSE << >>

RECURSIVE InteriorGaps_NoTolerance(_, _, _)
\* (mutant) a pair is reported as soon as it is further apart than interval
InteriorGaps_NoTolerance(ts, i, interval) ==
    IF i >= Len(ts) THEN << >>
    ELSE LET expected_next_time == ts[i] + interval
         IN  (IF ts[i + 1] > expected_next_time
              THEN << << expected_next_time, ts[i + 1] >> >>
              ELSE << >>)
             \o InteriorGaps_NoTolerance(ts, i + 1, interval)

RECURSIVE InteriorGaps_AtLeast(_, _, _)
\* (mutant) a pair exactly two intervals apart is reported
InteriorGaps_AtLeast(ts, i, interval) ==
    IF i >= Len(ts) THEN << >>
    ELSE LET expected_next_time == ts[i] + interval
         IN  (IF ts[i + 1] >= expected_next_time + interval
              THEN << << expected_next_time, ts[i + 1] >> >>
              ELSE << >>)
             \o InteriorGaps_AtLeast(ts, i + 1, interval)

RECURSIVE InteriorGaps_LateStart(_, _, _)
\* (mutant) the range reported starts one interval late
InteriorGaps_LateStart(ts, i, interval) ==
    IF i >= Len(ts) THEN << >>
    ELSE LET expected_next_time == ts[i] + interval
         IN  (IF ts[i + 1] > expected_next_time + interval
              THEN << << expected_next_time + interval, ts[i + 1] >> >>
              ELSE << >>)
             \o InteriorGaps_LateStart(ts, i + 1, interval)

RECURSIVE InteriorGaps(_, _, _)
\* the loop over the pairs (ts[i], ts[i + 1]) of the sorted timestamps
InteriorGaps(ts, i, interval) ==
    IF i >= Len(ts) THEN << >>
    ELSE LET expected_next_time == ts[i] + interval
         IN  (IF ts[i + 1] > expected_next_time + interval
              THEN << << expected_next_time, ts[i + 1] >> >>
              ELSE << >>)
             \o InteriorGaps(ts, i + 1, interval)

\* (mutant) the tolerance of one interval is left out at the end
TrailingGap_NoInterval(last_ts, interval, end_time) ==
    IF last_ts < end_time
    THEN << << last_ts + interval, end_time >> >>
    ELSE << >>

\* if df['timestamp'].max() < end_time - interval: append (max + interval, end_time)
TrailingGap(last_ts, interval, end_time) ==
    IF last_ts < end_time - interval
    THEN << << last_ts + interval, end_time >> >>
    ELSE << >>

\* get_missing_timeframes on the frame that load_ohlcv_data returned
get_missing_timeframes(df, timeframe, start_time, end_time) ==
    IF ~enable_data_filling THEN << << start_time, end_time >> >>
    ELSE IF df = NoneDf \/ Len(df) = 0 THEN WholeRange(start_time, end_time)
    ELSE LET sorted == SortValues(df)
             ts == [ i \in 1..Len(sorted) |-> sorted[i].ts ]
             interval == Interval(timeframe)
         IN  LeadingGap(ts[1], start_time)
             \o InteriorGaps(ts, 1, interval)
             \o TrailingGap(ts[Len(ts)], interval, end_time)

\* (mutant) the number of candles asked for is not capped
RequestLimit_NoCap(timeframe, period_start, period_end) ==
    ((period_end - period_start) \div Interval(timeframe)) + 1

\* the number of candles asked for to cover [period_start, period_end)
RequestLimit(timeframe, period_start, period_end) ==
    MinOf(((period_end - period_start) \div Interval(timeframe)) + 1, PageLimit)


----------------------------------------------------------------------------
(* Environment: what the exchanges answer during one orchestrator call *)

\* without `since` an exchange answers with its latest candles
LatestSets == { a..MaxTime : a \in Times }

\* with `since` it answers with at most `limit` candles, none older
SinceSets(since, limit) == AnswerSets(since, limit) \ { {} }

\* answers[p] is what exchange p does if asked: raise ("error", or the
\* exception class fetch_data tells apart), lack fetchOHLCV ("unsupported"),
\* return nothing ("empty") or return candles at the timestamps S ("data")
MainAnswers == { "error", "unsupported", "empty", "data" }

CoreAnswers == { "unavailable", "network", "exchange", "unknown", "empty", "data" }

KindsOf(answers) ==
    [ p \in DOMAIN answers |->
        IF answers[p] \in { "empty", "data" } THEN "rows" ELSE answers[p] ]

RowsOf(answers, S) ==
    [ p \in DOMAIN answers |->
        IF answers[p] = "data" THEN Frame(S, p) ELSE << >> ]

----------------------------------------------------------------------------
(* State *)

VARIABLES
    cache,      \* success_exchanges.json: per key the list of exchange ids
    files,      \* the CSV file of each exchange id, None if there is none
    listing,    \* the existing CSV files in the order DATA_DIR.glob lists them
    last,       \* the last direct orchestrator call: what it printed and returned
    calls,      \* direct orchestrator calls made
    pc,         \* "idle", or "ranges" inside the loop of fetch_and_save_ohlcv_data
    job,        \* the locals of the running fetch_and_save_ohlcv_data
    runs,       \* backfill runs started
    done,       \* the last completed backfill run
    have,       \* what each exchange holds, where the exchanges are static
    gap,        \* the get_missing_timeframes call made on a given frame
    db_type,    \* config['database']['type'], the engine being connected
    table,      \* the rows of the table ohlcv_data, in the order inserted
    tf,         \* the timeframe the backfill runs are called with
    crash,      \* the last backfill run that died between fetch and save
    procs       \* the locals of jobs that run at the same time

vars == << cache, files, listing, last, calls, pc, job, runs, done, have, gap,
           db_type, table, tf, crash, procs >>

NoCall == [ fn |-> None ]

NoJob == [ start_time |-> 0, end_time |-> 0 ]

NoRun == [ n |-> 0 ]

NoGap == [ called |-> FALSE ]

NoCrash == [ n |-> 0 ]

NoProcs == [ jobs |-> << >>, events |-> << >> ]

\* the timeframe of the backfill runs modelled
BackfillTimeframe == "1h"

\* before any call: no ranking recorded, no file stored
InitStore ==
    /\ cache = [ k \in Keys |-> << >> ]
    /\ files = [ p \in Range(TOP_EXCHANGES) |-> NoneDf ]
    /\ listing = << >>
    /\ last = NoCall
    /\ calls = 0
    /\ pc = "idle"
    /\ job = NoJob
    /\ runs = 0
    /\ done = NoRun
    /\ gap = NoGap
    /\ table = << >>
    /\ crash = NoCrash
    /\ procs = NoProcs

\* the exchanges answer each call afresh: what they hold is not fixed
Init ==
    /\ InitStore
    /\ db_type = "csv"
    /\ tf = BackfillTimeframe
    /\ have = [ p \in Range(TOP_EXCHANGES) |-> [ up |-> FALSE, H |-> {} ] ]

----------------------------------------------------------------------------
(* Direct calls of the orchestrators *)

\* what the exchanges of the attempts printed in log were asked and
\* answered: the kind of answer, and how many rows it had
Asked(log, answers, S) ==
    [ i \in 1..Len(log) |->
        [ provider |-> log[i].provider,
          kind     |-> KindsOf(answers)[log[i].provider],
          n        |-> Len(RowsOf(answers, S)[log[i].provider]) ] ]

\* main() calling fetch_ohlcv_from_multiple_exchanges(symbol, timeframe, limit)
FetchOHLCV(key, answers, S) ==
    /\ pc = "idle"
    /\ runs = 0
    /\ calls < MaxCalls
    /\ last.fn # "fetch_data"
    /\ \E r \in { fetch_ohlcv_from_multiple_exchanges(
                      cache, key, KindsOf(answers), RowsOf(answers, S)) } :
           /\ cache' = r.doc
           /\ last' = [ fn |-> "fetch_ohlcv_from_multiple_exchanges",
                        key |-> key,
                        exchanges |-> r.exchanges,
                        log |-> r.log,
                        asked |-> Asked(r.log, answers, S),
                        auto_fallback |-> TRUE,
                        exchange_id |-> r.exchange_id,
                        df |-> r.df,
                        raised |-> FALSE,
                        report |-> << >>,
                        tried_msg |-> << >>,
                        cache_before |-> cache ]
    /\ calls' = calls + 1
    /\ UNCHANGED << files, listing, pc, job, runs, done, have, gap, db_type, table, tf, crash, procs >>

\* the dashboard calling fetch_data(symbol, timeframe, limit, proxies,
\* exchange_id, auto_fallback); it runs in a process of its own and keeps
\* nothing between calls, so one call from the start covers every call
FetchData(exchange_id, auto_fallback, answers, S) ==
    /\ pc = "idle"
    /\ runs = 0
    /\ calls = 0
    /\ \E r \in { fetch_data(exchange_id, auto_fallback,
                             KindsOf(answers), RowsOf(answers, S)) } :
           last' = [ fn |-> "fetch_data",
                     key |-> None,
                     exchanges |-> r.exchanges,
                     log |-> r.log,
                     asked |-> Asked(r.log, answers, S),
                     auto_fallback |-> auto_fallback,
                     exchange_id |-> r.exchange_id,
                     df |-> r.df,
                     raised |-> r.raised,
                     report |-> IF r.raised /\ r.last_exchange_id # None
                                THEN << [provider |-> r.last_exchange_id,
                                         outcome |-> r.last_error] >>
                                ELSE << >>,
                     tried_msg |-> r.tried_msg,
                     cache_before |-> cache ]
    /\ calls' = calls + 1
    /\ UNCHANGED << cache, files, listing, pc, job, runs, done, have, gap, db_type, table, tf, crash, procs >>

----------------------------------------------------------------------------
(* MergeWriter: fetch_and_save_ohlcv_data(symbol, "1h", start_time, end_time) *)

\* (mutant) the early return is never taken
UpToDate_Never(missing_periods) == FALSE

\* if not missing_periods: return True
UpToDate(missing_periods) == missing_periods = << >>

\* (mutant) the flag is what the last range came to
SuccessAfter_LastOnly(success, fetched, saved) == fetched /\ saved

\* success after one range: set once a fetched range has been saved
SuccessAfter(success, fetched, saved) == success \/ (fetched /\ saved)

\* (mutant) existing_df is replaced whether or not the save went through
WorkingSeriesAfter_Always(existing_df, combined_df, saved) == combined_df

\* if save_ohlcv_data(...): existing_df = combined_df
WorkingSeriesAfter(existing_df, combined_df, saved) ==
    IF saved THEN combined_df ELSE existing_df

\* (mutant) a range whose fetch failed ends the loop
NextPeriod_StopOnFailure(i, n, fetched) == IF fetched THEN i + 1 ELSE n + 1

\* the for loop over missing_periods goes on to the next range
NextPeriod(i, n, fetched) == i + 1

\* the record of a completed run: its range, the ranges found missing, the
\* request made for each, the value returned, the last merge, the frame
\* load_ohlcv_data returned before and returns after, and the range of the
\* run before it
Completed(j, ret, fs, ls, tb) ==
    [ n             |-> runs,
      start_time    |-> j.start_time,
      end_time      |-> j.end_time,
      missing       |-> j.missing_periods,
      fetches       |-> j.fetches,
      ret           |-> ret,
      merge         |-> j.merge,
      loaded_before |-> j.loaded_before,
      loaded_after  |-> load_ohlcv_data(db_type, tb, fs, ls, TRUE),
      prev          |-> IF done.n = 0 THEN [ n |-> 0 ]
                        ELSE [ n          |-> done.n,
                               start_time |-> done.start_time,
                               end_time   |-> done.end_time,
                               saves_ok   |-> \A k \in 1..Len(done.fetches) :
                                                done.fetches[k].fetched
                                                    => done.fetches[k].saved ] ]

NoMerge == [ merged |-> FALSE ]

\* the call up to the loop: the missing ranges and the stored frame
StartBackfill(start_time, end_time) ==
    /\ pc = "idle"
    /\ runs < MaxRuns
    /\ runs' = runs + 1
    /\ \E q1 \in Outcomes(db_type), q2 \in Outcomes(db_type) :
       \E loaded \in { load_ohlcv_data(db_type, table, files, listing, q1) } :
       \E existing \in { load_ohlcv_data(db_type, table, files, listing, q2) } :
       \E missing_periods \in
            { get_missing_timeframes(loaded, tf,
                                     start_time, end_time) } :
       \E j \in { [ start_time      |-> start_time,
                    end_time        |-> end_time,
                    missing_periods |-> missing_periods,
                    i               |-> 1,
                    existing_df     |-> IF existing = NoneDf THEN << >> ELSE existing,
                    success         |-> FALSE,
                    fetches         |-> << >>,
                    merge           |-> NoMerge,
                    loaded_before   |-> loaded ] } :
          IF UpToDate(missing_periods)
          THEN /\ done' = [ Completed(j, TRUE, files, listing, table)
                              EXCEPT !.n = runs + 1 ]
               /\ UNCHANGED << pc, job >>
          ELSE IF Len(missing_periods) = 0
          THEN /\ done' = [ Completed(j, j.success, files, listing, table)
                              EXCEPT !.n = runs + 1 ]
               /\ UNCHANGED << pc, job >>
          ELSE /\ pc' = "ranges"
               /\ job' = j
               /\ UNCHANGED done
    /\ UNCHANGED << cache, files, listing, last, calls, have, gap, db_type, table, tf, crash, procs >>

\* the request of the pass of the loop that comes next
PeriodStart == job.missing_periods[job.i][1]

PeriodEnd == job.missing_periods[job.i][2]

PeriodLimit == RequestLimit(tf, PeriodStart, PeriodEnd)

\* one pass of the loop: the request for missing_periods[i], and on rows
\* the merge into existing_df and the save; after the last range the return.
\* pg is whether the insert is committed, ok whether to_csv can write (it is
\* tried when there is no commit), pos where a new file shows in the listing.
FillRange(answers, S) ==
    /\ pc = "ranges"
    /\ S \in SinceSets(PeriodStart, PeriodLimit)
    /\ \E r \in { fetch_ohlcv_from_multiple_exchanges(
                      cache, tf,
                      KindsOf(answers), RowsOf(answers, S)) } :
       \E fetched \in { r.df # NoneDf /\ Len(r.df) > 0 } :
       \E combined_df \in { IF fetched THEN Combine(job.existing_df, r.df)
                            ELSE << >> } :
       \E pg \in IF fetched THEN Outcomes(db_type) ELSE { FALSE } :
       \E ok \in IF fetched /\ ~pg THEN BOOLEAN ELSE { TRUE } :
       \E saved \in { fetched /\ ok } :
       \E pos \in IF saved /\ ~pg /\ r.exchange_id \notin Range(listing)
                  THEN 1..(Len(listing) + 1) ELSE { 1 } :
       \E i2 \in { NextPeriod(job.i, Len(job.missing_periods), fetched) } :
       \E j \in { [ job EXCEPT
                      !.i = i2,
                      !.existing_df = WorkingSeriesAfter(@, combined_df, saved),
                      !.success = SuccessAfter(@, fetched, saved),
                      !.fetches = Append(@,
                          [ since   |-> PeriodStart,
                            limit   |-> PeriodLimit,
                            fetched |-> fetched,
                            saved   |-> saved,
                            fresh   |-> fetched /\
                                (Timestamps(r.df) \ Timestamps(job.existing_df)) # {} ]),
                      !.merge = IF fetched
                                THEN [ merged      |-> TRUE,
                                       saved       |-> saved,
                                       existing_df |-> job.existing_df,
                                       df          |-> r.df,
                                       combined_df |-> combined_df ]
                                ELSE @ ] } :
          /\ cache' = r.doc
          /\ table' = IF pg
                      THEN save_to_postgresql(table, combined_df, r.exchange_id)
                      ELSE table
          /\ files' = IF fetched /\ ~pg
                      THEN save_to_csv(files, combined_df, r.exchange_id, ok)
                      ELSE files
          /\ listing' = IF fetched /\ ~pg
                        THEN ListingAfterSave(listing, r.exchange_id, ok, pos)
                        ELSE listing
          /\ IF i2 > Len(job.missing_periods)
             THEN /\ pc' = "idle"
                  /\ job' = NoJob
                  /\ done' = Completed(j, j.success, files', listing', table')
             ELSE /\ pc' = "ranges"
                  /\ job' = j
                  /\ UNCHANGED done
    /\ UNCHANGED << last, calls, runs, have, gap, db_type, tf, crash, procs >>

\* the ranges [start_time, end_time) a run is asked for
Ranges ==
    { << a, b >> \in (0..1) \X (MaxTime..(MaxTime + 1)) : a < b }

NextBackfill ==
    \/ \E rg \in Ranges : StartBackfill(rg[1], rg[2])
    \/ \E answers \in [ Range(TOP_EXCHANGES) -> MainAnswers ],
          S \in SUBSET Times : FillRange(answers, S)

SpecBackfill == Init /\ [][NextBackfill]_vars

\* the backfill runs with database.type postgresql and the engine connected
InitPostgres ==
    /\ InitStore
    /\ tf = BackfillTimeframe
    /\ have = [ p \in Range(TOP_EXCHANGES) |-> [ up |-> FALSE, H |-> {} ] ]
    /\ db_type = "postgresql"

\* each run is asked for the same range
NextPostgres ==
    \/ StartBackfill(0, MaxTime + 1)
    \/ \E answers \in [ Range(TOP_EXCHANGES) -> MainAnswers ],
          S \in SUBSET Times : FillRange(answers, S)

SpecPostgres == InitPostgres /\ [][NextPostgres]_vars

----------------------------------------------------------------------------
(* Backfill against exchanges whose data does not change *)

\* the candles an exchange that holds the timestamps H answers a request
\* with: the oldest `limit` of those not older than `since`
StaticAnswer(H, since, limit) ==
    LET a == Ascending({ t \in H : t >= since })
    IN  Range(SubSeq(a, 1, MinOf(limit, Len(a))))

\* what the exchanges answer to the request that comes next
StaticAnswers ==
    [ p \in Range(TOP_EXCHANGES) |->
        IF ~have[p].up THEN "error"
        ELSE IF StaticAnswer(have[p].H, PeriodStart, PeriodLimit) = {} THEN "empty"
        ELSE "data" ]

\* the exchange that answers the request: the first of the ranking with data
StaticWinners ==
    LET ex == get_prioritized_exchanges(cache, BackfillTimeframe)
        ok == { k \in 1..Len(ex) : StaticAnswers[ex[k]] = "data" }
    IN  IF ok = {} THEN {} ELSE { ex[Min(ok)] }

\* one pass of the loop, the exchanges answering from what they hold
FillRangeStatic ==
    /\ pc = "ranges"
    /\ \E S \in IF StaticWinners = {} THEN { { PeriodStart } }
                ELSE { StaticAnswer(have[p].H, PeriodStart, PeriodLimit) :
                       p \in StaticWinners } :
          FillRange(StaticAnswers, S)

\* what an exchange can hold: a stretch of consecutive candles, or nothing
Holdings == { a..b : a \in Times, b \in Times }

InitStatic ==
    /\ InitStore
    /\ db_type = "csv"
    /\ tf = BackfillTimeframe
    /\ have \in [ Range(TOP_EXCHANGES) ->
                    { w \in [ up : BOOLEAN, H : Holdings ] :
                        (~w.up) => w.H = {} } ]

NextStatic ==
    \/ \E rg \in Ranges : StartBackfill(rg[1], rg[2])
    \/ FillRangeStatic

SpecStatic == InitStatic /\ [][NextStatic]_vars

-----------------------------------------------------------------------------
(* Backfill runs over long ranges *)

\* the timeframes of the runs over long ranges
PagingTimeframes == { "1h", "1d" }

\* a range of a few candles and one of more than twice PageLimit candles
PagingRanges == { << 0, 5 >>, << 1, 2 * PageLimit + 2 >> }

InitPaging ==
    /\ InitStore
    /\ db_type = "csv"
    /\ have = [ p \in Range(TOP_EXCHANGES) |-> [ up |-> FALSE, H |-> {} ] ]
    /\ tf \in PagingTimeframes

\* the timestamps of the candles of the timeframe: multiples of its interval
OnTimeframe(S) == \A t \in S : t % Interval(tf) = 0

NextPaging ==
    \/ \E rg \in PagingRanges : StartBackfill(rg[1], rg[2])
    \/ \E answers \in [ Range(TOP_EXCHANGES) -> MainAnswers ],
          S \in { T \in SUBSET Times : OnTimeframe(T) } :
          FillRange(answers, S)

SpecPaging == InitPaging /\ [][NextPaging]_vars

-----------------------------------------------------------------------------
(* A backfill run that dies between the fetch and the save *)

\* (mutant) the file of the exchange was written before the process died
CrashStore_Written(fs, combined_df, exchange_id) ==
    save_to_csv(fs, combined_df, exchange_id, TRUE)

\* the files when the process ends after fetch_ohlcv_from_multiple_exchanges
\* has returned and before save_ohlcv_data is called: none is written
CrashStore(fs, combined_df, exchange_id) == fs

\* the process ends in the pass of the loop for missing_periods[i], after
\* the fetch, which has recorded its success, and before the save; the
\* locals of the run are gone
CrashAfterFetch(answers, S) ==
    /\ pc = "ranges"
    /\ S \in SinceSets(PeriodStart, PeriodLimit)
    /\ \E r \in { fetch_ohlcv_from_multiple_exchanges(
                      cache, tf, KindsOf(answers), RowsOf(answers, S)) } :
          /\ r.df # NoneDf
          /\ Len(r.df) > 0
          /\ cache' = r.doc
          /\ files' = CrashStore(files, Combine(job.existing_df, r.df),
                                 r.exchange_id)
          /\ crash' = [ n               |-> runs,
                        start_time      |-> job.start_time,
                        end_time        |-> job.end_time,
                        gap             |-> << PeriodStart, PeriodEnd >>,
                        saved_before    |-> \E k \in 1..Len(job.fetches) :
                                               job.fetches[k].saved,
                        loaded_at_fetch |-> load_ohlcv_data(db_type, table,
                                               files, listing, TRUE),
                        loaded_after    |-> load_ohlcv_data(db_type, table,
                                               files', listing, TRUE) ]
    /\ pc' = "idle"
    /\ job' = NoJob
    /\ UNCHANGED << listing, last, calls, runs, done, have, gap, db_type, table,
                    tf, procs >>

\* the timestamps a run before the first one modelled has left in the
\* file of the exchange that answered it
SeedSets == { {}, {1}, {2} }

\* the files, the listing and the ranking after a run that stored the
\* candles S of the first exchange of TOP_EXCHANGES; nothing where S is empty
InitCrash ==
    /\ \E S \in SeedSets :
          IF S = {}
          THEN /\ cache = [ k \in Keys |-> << >> ]
               /\ files = [ p \in Range(TOP_EXCHANGES) |-> NoneDf ]
               /\ listing = << >>
          ELSE /\ cache = save_success_exchange([ k \in Keys |-> << >> ],
                              BackfillTimeframe, TOP_EXCHANGES[1])
               /\ files = save_to_csv([ p \in Range(TOP_EXCHANGES) |-> NoneDf ],
                              Frame(S, TOP_EXCHANGES[1]), TOP_EXCHANGES[1], TRUE)
               /\ listing = ListingAfterSave(<< >>, TOP_EXCHANGES[1], TRUE, 1)
    /\ last = NoCall
    /\ calls = 0
    /\ pc = "idle"
    /\ job = NoJob
    /\ runs = 0
    /\ done = NoRun
    /\ gap = NoGap
    /\ table = << >>
    /\ crash = NoCrash
    /\ procs = NoProcs
    /\ db_type = "csv"
    /\ tf = BackfillTimeframe
    /\ have = [ p \in Range(TOP_EXCHANGES) |-> [ up |-> FALSE, H |-> {} ] ]

\* each exchange fails or answers with candles
CrashAnswers == { "error", "data" }

\* a run over one range, which may die and is then followed by the next run
\* over the same range
NextCrash ==
    \/ /\ runs = 0 \/ crash.n = runs
       /\ StartBackfill(0, MaxTime + 1)
    \/ \E answers \in [ Range(TOP_EXCHANGES) -> CrashAnswers ],
          S \in SUBSET Times :
          FillRange(answers, S)
    \/ /\ crash.n = 0
       /\ \E answers \in [ Range(TOP_EXCHANGES) -> CrashAnswers ],
             S \in SUBSET Times :
             CrashAfterFetch(answers, S)

SpecCrash == InitCrash /\ [][NextCrash]_vars

-----------------------------------------------------------------------------
(* Two jobs in save_success_exchange at the same time *)

\* the jobs that run at the same time
JobIds == 1..2

\* (mutant) the document is read again when it is written
DocumentWritten_Reloaded(loaded, current, key, exchange_id) ==
    save_success_exchange(current, key, exchange_id)

\* what json.dump writes: the document the job loaded, with exchange_id
\* moved to the front of the list of the key; current is the file then
DocumentWritten(loaded, current, key, exchange_id) ==
    save_success_exchange(loaded, key, exchange_id)

\* success_exchanges = load_success_exchanges() of job j, which is in
\* save_success_exchange(symbol, timeframe, exchange_id)
LoadDocument(j, key, exchange_id) ==
    /\ procs.jobs[j].pc = "start"
    /\ procs' = [ procs EXCEPT
                    !.jobs[j] = [ pc          |-> "loaded",
                                  key         |-> key,
                                  exchange_id |-> exchange_id,
                                  doc         |-> cache ],
                    !.events = Append(@, [ job |-> j, op |-> "load" ]) ]
    /\ UNCHANGED << cache, files, listing, last, calls, pc, job, runs, done,
                    have, gap, db_type, table, tf, crash >>

\* the update of the loaded document and json.dump of job j
WriteDocument(j) ==
    /\ procs.jobs[j].pc = "loaded"
    /\ cache' = DocumentWritten(procs.jobs[j].doc, cache,
                                procs.jobs[j].key, procs.jobs[j].exchange_id)
    /\ procs' = [ procs EXCEPT
                    !.jobs[j].pc = "done",
                    !.events = Append(@, [ job |-> j, op |-> "write" ]) ]
    /\ UNCHANGED << files, listing, last, calls, pc, job, runs, done,
                    have, gap, db_type, table, tf, crash >>

\* the rankings left by the calls made before the two jobs
SeedDocuments ==
    { [ k \in Keys |-> << >> ],
      save_success_exchange([ k \in Keys |-> << >> ], "1h", TOP_EXCHANGES[1]) }

InitPromote ==
    /\ cache \in SeedDocuments
    /\ files = [ p \in Range(TOP_EXCHANGES) |-> NoneDf ]
    /\ listing = << >>
    /\ last = NoCall
    /\ calls = 0
    /\ pc = "idle"
    /\ job = NoJob
    /\ runs = 0
    /\ done = NoRun
    /\ gap = NoGap
    /\ table = << >>
    /\ crash = NoCrash
    /\ procs = [ jobs |-> [ j \in JobIds |-> [ pc |-> "start" ] ],
                 events |-> << >> ]
    /\ db_type = "csv"
    /\ tf = BackfillTimeframe
    /\ have = [ p \in Range(TOP_EXCHANGES) |-> [ up |-> FALSE, H |-> {} ] ]

NextPromote ==
    \/ \E j \in JobIds, key \in Keys, exchange_id \in Range(TOP_EXCHANGES) :
          LoadDocument(j, key, exchange_id)
    \/ \E j \in JobIds : WriteDocument(j)

SpecPromote == InitPromote /\ [][NextPromote]_vars

-----------------------------------------------------------------------------
(* Two jobs in fetch_and_save_ohlcv_data for one symbol and timeframe *)

\* job j calls fetch_and_save_ohlcv_data(symbol, timeframe, start_time,
\* end_time): the call up to the loop
StartJob(j, start_time, end_time) ==
    /\ procs.jobs[j].pc = "start"
    /\ \E loaded \in { load_ohlcv_data(db_type, table, files, listing, TRUE) } :
       \E missing_periods \in
            { get_missing_timeframes(loaded, tf, start_time, end_time) } :
          procs' = [ procs EXCEPT
                       !.jobs[j] =
                           [ pc              |-> IF UpToDate(missing_periods)
                                                 THEN "done" ELSE "ranges",
                             missing_periods |-> missing_periods,
                             i               |-> 1,
                             existing_df     |-> IF loaded = NoneDf THEN << >>
                                                 ELSE loaded,
                             success         |-> UpToDate(missing_periods) ],
                       !.events = Append(@, [ job |-> j, op |-> "load" ]) ]
    /\ UNCHANGED << cache, files, listing, last, calls, pc, job, runs, done,
                    have, gap, db_type, table, tf, crash >>

\* one pass of the loop of job j: the request for missing_periods[i], and
\* on rows the merge into the existing_df of the job and the save
FillRangeJob(j, answers, S) ==
    /\ procs.jobs[j].pc = "ranges"
    /\ \E me \in { procs.jobs[j] } :
       \E period \in { me.missing_periods[me.i] } :
       \E limit \in { RequestLimit(tf, period[1], period[2]) } :
          /\ S \in SinceSets(period[1], limit)
          /\ \E r \in { fetch_ohlcv_from_multiple_exchanges(
                            cache, tf, KindsOf(answers), RowsOf(answers, S)) } :
             \E fetched \in { r.df # NoneDf /\ Len(r.df) > 0 } :
             \E combined_df \in { IF fetched THEN Combine(me.existing_df, r.df)
                                  ELSE << >> } :
             \E ok \in IF fetched THEN BOOLEAN ELSE { TRUE } :
             \E saved \in { fetched /\ ok } :
             \E pos \in IF saved /\ r.exchange_id \notin Range(listing)
                        THEN 1..(Len(listing) + 1) ELSE { 1 } :
             \E i2 \in { NextPeriod(me.i, Len(me.missing_periods), fetched) } :
                /\ cache' = r.doc
                /\ files' = IF fetched
                            THEN save_to_csv(files, combined_df, r.exchange_id, ok)
                            ELSE files
                /\ listing' = IF fetched
                              THEN ListingAfterSave(listing, r.exchange_id, ok, pos)
                              ELSE listing
                /\ procs' = [ procs EXCEPT
                      !.jobs[j] = [ me EXCEPT
                          !.pc = IF i2 > Len(me.missing_periods)
                                 THEN "done" ELSE "ranges",
                          !.i = i2,
                          !.existing_df =
                              WorkingSeriesAfter(@, combined_df, saved),
                          !.success = SuccessAfter(@, fetched, saved) ],
                      !.events = IF saved
                                 THEN Append(@, [ job         |-> j,
                                                  op          |-> "save",
                                                  exchange_id |-> r.exchange_id,
                                                  combined_df |-> combined_df ])
                                 ELSE @ ]
    /\ UNCHANGED << last, calls, pc, job, runs, done, have, gap, db_type, table,
                    tf, crash >>

\* nothing is stored, and both jobs are about to be started
InitOverwrite ==
    /\ cache = [ k \in Keys |-> << >> ]
    /\ files = [ p \in Range(TOP_EXCHANGES) |-> NoneDf ]
    /\ listing = << >>
    /\ last = NoCall
    /\ calls = 0
    /\ pc = "idle"
    /\ job = NoJob
    /\ runs = 0
    /\ done = NoRun
    /\ gap = NoGap
    /\ table = << >>
    /\ crash = NoCrash
    /\ procs = [ jobs |-> [ j \in JobIds |-> [ pc |-> "start" ] ],
                 events |-> << >> ]
    /\ db_type = "csv"
    /\ tf = BackfillTimeframe
    /\ have = [ p \in Range(TOP_EXCHANGES) |-> [ up |-> FALSE, H |-> {} ] ]

\* what the exchanges answer the two jobs with
OverwriteSets == (SUBSET Times) \ { {} }

\* both jobs are called for the same range
NextOverwrite ==
    \/ \E j \in JobIds : StartJob(j, 0, MaxTime + 1)
    \/ \E j \in JobIds, answers \in [ Range(TOP_EXCHANGES) -> CrashAnswers ],
          S \in OverwriteSets :
          FillRangeJob(j, answers, S)

SpecOverwrite == InitOverwrite /\ [][NextOverwrite]_vars

Next ==
    \/ \E key \in Keys, answers \in [ Range(TOP_EXCHANGES) -> MainAnswers ],
          S \in LatestSets :
          FetchOHLCV(key, answers, S)
    \/ \E exchange_id \in Providers \cup { None }, auto_fallback \in BOOLEAN,
          S \in LatestSets :
          \E answers \in [ Range(ExchangeList(exchange_id, auto_fallback))
                           -> CoreAnswers ] :
             FetchData(exchange_id, auto_fallback, answers, S)

Spec == Init /\ [][Next]_vars

\* main() calling get_markets_from_multiple_exchanges(symbol)
GetMarkets(answers) ==
    /\ pc = "idle"
    /\ runs = 0
    /\ calls < MaxCalls
    /\ \E r \in { get_markets_from_multiple_exchanges(cache, answers) } :
           /\ cache' = r.doc
           /\ last' = [ fn |-> "get_markets_from_multiple_exchanges",
                        key |-> "1d",
                        exchanges |-> r.exchanges,
                        log |-> r.log,
                        asked |-> << >>,
                        auto_fallback |-> TRUE,
                        exchange_id |-> r.exchange_id,
                        df |-> NoneDf,
                        raised |-> FALSE,
                        report |-> << >>,
                        tried_msg |-> << >>,
                        cache_before |-> cache ]
    /\ calls' = calls + 1
    /\ UNCHANGED << files, listing, pc, job, runs, done, have, gap, db_type, table, tf, crash, procs >>

\* the market lookups and the OHLCV fetches of main(), in any order
NextMarkets ==
    \/ \E answers \in [ Range(TOP_EXCHANGES) -> MarketAnswers ] :
          GetMarkets(answers)
    \/ \E key \in Keys, answers \in [ Range(TOP_EXCHANGES) -> MainAnswers ],
          S \in LatestSets :
          FetchOHLCV(key, answers, S)

SpecMarkets == Init /\ [][NextMarkets]_vars

----------------------------------------------------------------------------
(* GapDetector: get_missing_timeframes called on a stored frame *)

\* the timestamps of the stored frames and of the ranges asked for
GapTimes == 0..GapMaxTime

\* the rows of df, last row first
Reverse(df) == [ i \in 1..Len(df) |-> df[Len(df) + 1 - i] ]

\* what load_ohlcv_data can return: None, or a frame of up to MaxStored
\* rows, stored oldest first or newest first
StoredFrames ==
    { NoneDf }
    \cup { Frame(S, TOP_EXCHANGES[1]) :
             S \in { T \in SUBSET GapTimes : Cardinality(T) <= MaxStored } }
    \cup { Reverse(Frame(S, TOP_EXCHANGES[1])) :
             S \in { T \in SUBSET GapTimes : Cardinality(T) <= MaxStored } }

\* the ranges [start_time, end_time) asked for
GapRanges == { rg \in GapTimes \X GapTimes : rg[1] < rg[2] }

GapTimeframes == { "1h", "2h" }

\* one call of get_missing_timeframes, load_ohlcv_data returning df
GetMissingTimeframes(df, timeframe, start_time, end_time) ==
    /\ ~gap.called
    /\ gap' = [ called     |-> TRUE,
                df         |-> df,
                timeframe  |-> timeframe,
                start_time |-> start_time,
                end_time   |-> end_time,
                missing    |-> get_missing_timeframes(df, timeframe,
                                                      start_time, end_time) ]
    /\ UNCHANGED << cache, files, listing, last, calls, pc, job, runs, done, have,
                   db_type, table, tf, crash, procs >>

NextGaps ==
    /\ ~gap.called
    /\ \E df \in StoredFrames, timeframe \in GapTimeframes, rg \in GapRanges :
          GetMissingTimeframes(df, timeframe, rg[1], rg[2])

SpecGaps == Init /\ [][NextGaps]_vars


----------------------------------------------------------------------------
(* Claims about the orchestrators and the ranking cache *)

Called == last.fn # None

Succeeded == Called /\ last.exchange_id # None

ByMain == last.fn = "fetch_ohlcv_from_multiple_exchanges"

ByCore == last.fn = "fetch_data"

LogProviders == [ i \in 1..Len(last.log) |-> last.log[i].provider ]

\* the call ended without an answer from any exchange; fetch_data without
\* auto_fallback gives up at the first failure, which exhausts the list
\* only when the list has one exchange
Exhausted ==
    /\ Called
    /\ last.exchange_id = None
    /\ ByCore => Len(last.log) = Len(last.exchanges)

\* the ranking the next get_prioritized_exchanges call for the key returns
RankedNow == get_prioritized_exchanges(cache, last.key)

\* C1: first success wins.  The exchange returned is the first one of the
\* ranked list whose attempt succeeded; every exchange ranked before it was
\* attempted exactly once, in rank order, and failed; no exchange ranked
\* after it was attempted; the frame returned is the one it answered with.
C1_FirstSuccessWins ==
    Succeeded =>
        LET n == Len(last.log)
        IN  /\ n \in 1..Len(last.exchanges)
            /\ LogProviders = SubSeq(last.exchanges, 1, n)
            /\ last.exchanges[n] = last.exchange_id
            /\ last.log[n].outcome = "success"
            /\ \A i \in 1..(n - 1) : last.log[i].outcome # "success"
            /\ Len(last.df) > 0
            /\ \A i \in 1..Len(last.df) : last.df[i].val = last.exchange_id

\* A and B failed and C, ranked third, answered
C1_Witness ==
    /\ Succeeded
    /\ Len(last.log) = 3
    /\ Len(last.exchanges) >= 3
    /\ last.exchange_id = last.exchanges[3]

C3_MoveToFront ==
    (ByMain /\ Succeeded) =>
        RankedNow = << last.exchange_id >>
                    \o Filter(last.exchanges,
                              Range(last.exchanges) \ { last.exchange_id })

\* ranking [X, Y, Z] that is not the default order; X and Y fail, Z answers;
\* the ranking is then [Z, X, Y]
C3_Witness ==
    /\ ByMain /\ Succeeded
    /\ Len(last.exchanges) = 3
    /\ last.exchanges # TOP_EXCHANGES
    /\ last.log[1].outcome = "error"
    /\ last.log[2].outcome # "success"
    /\ last.exchange_id = last.exchanges[3]
    /\ RankedNow = << last.exchanges[3], last.exchanges[1], last.exchanges[2] >>

\* the (provider, outcome) entries the value returned or raised carries
ReportEntries == last.report

----------------------------------------------------------------------------
(* Backfill runs *)

\* a backfill run has returned
Returned == done.n > 0

\* the ranges of the last run that were fetched and saved
Filled == { k \in 1..Len(done.fetches) : done.fetches[k].saved }

\* C6: a run that found missing ranges returns True exactly when at least
\* one of them was fetched and saved, whatever became of the others.
C6_SuccessIffOneFilled ==
    (Returned /\ done.missing # << >>) => (done.ret <=> Filled # {})

\* two gaps, the first fails on every exchange, the second is saved
C6_Witness ==
    /\ Returned
    /\ Len(done.missing) = 2
    /\ ~done.fetches[1].fetched
    /\ done.fetches[2].saved
    /\ done.ret

\* the requests made so far are those of the first ranges found missing
RequestsFollow(fetches, missing_periods) ==
    \A k \in 1..Len(fetches) :
        /\ fetches[k].since = missing_periods[k][1]
        /\ fetches[k].limit = RequestLimit(BackfillTimeframe,
                                           missing_periods[k][1],
                                           missing_periods[k][2])

\* C7: a run calls fetch_ohlcv_from_multiple_exchanges once for every range
\* get_missing_timeframes returned, in the order returned, whether or not
\* the fetch or the save of an earlier range failed.
C7_EveryRangeRequested ==
    /\ pc = "ranges" =>
          /\ Len(job.fetches) = job.i - 1
          /\ job.i <= Len(job.missing_periods)
          /\ RequestsFollow(job.fetches, job.missing_periods)
    /\ Returned =>
          /\ Len(done.fetches) = Len(done.missing)
          /\ RequestsFollow(done.fetches, done.missing)

\* the save of the first of two ranges failed, the second was requested
C7_Witness ==
    /\ Returned
    /\ Len(done.missing) = 2
    /\ done.fetches[1].fetched
    /\ ~done.fetches[1].saved
    /\ Len(done.fetches) = 2

\* a run that starts and returns in one step: no range was requested
ReturnsAtOnce == pc = "idle" /\ runs' = runs + 1 /\ pc' = "idle"

\* C8: when get_missing_timeframes returns no range the run returns True
\* at once: no request is made, the ranking is not written and no file is
\* written.
C8_UpToDateReturnsAtOnce ==
    [][ (ReturnsAtOnce /\ done'.missing = << >>) =>
            /\ done'.ret
            /\ done'.fetches = << >>
            /\ cache' = cache
            /\ files' = files
            /\ listing' = listing
            /\ done'.loaded_after = done'.loaded_before ]_vars

\* a second run over a range the first run filled
C8_Witness ==
    /\ done.n = 2
    /\ done.missing = << >>
    /\ done.ret
    /\ done.fetches = << >>

\* the last run was the second of two runs in succession over one range
SecondRunSameRange ==
    /\ done.n >= 2
    /\ done.prev.n = done.n - 1
    /\ done.prev.start_time = done.start_time
    /\ done.prev.end_time = done.end_time

\* every save of both runs went through
SavesWentThrough ==
    /\ done.prev.saves_ok
    /\ \A k \in 1..Len(done.fetches) :
          done.fetches[k].fetched => done.fetches[k].saved

FetchedFresh == \E k \in 1..Len(done.fetches) : done.fetches[k].fresh

\* the rows of df1 are rows of df2, in the same order
RECURSIVE RowsKept(_, _)
RowsKept(df1, df2) ==
    IF df1 = << >> THEN TRUE
    ELSE IF df2 = << >> THEN FALSE
    ELSE IF Head(df1) = Head(df2) THEN RowsKept(Tail(df1), Tail(df2))
    ELSE RowsKept(df1, Tail(df2))

LastMerge ==
    IF pc = "ranges" THEN job.merge ELSE
    IF Returned THEN done.merge ELSE NoMerge

\* the timestamps the stored and the fetched rows have in common
Overlap(m) == Timestamps(m.existing_df) \cap Timestamps(m.df)

\* C10: combined_df has one row for each timestamp of existing_df or df, in
\* ascending order of timestamp, and the row of a timestamp in both is the
\* row of existing_df; its length is the two lengths less the overlap.
C10_MergeKeepsStored ==
    LastMerge.merged =>
        LET m == LastMerge
            c == m.combined_df
        IN  /\ Timestamps(c) = Timestamps(m.existing_df) \cup Timestamps(m.df)
            /\ \A a, b \in 1..Len(c) : a < b => c[a].ts < c[b].ts
            /\ \A k \in 1..Len(m.existing_df) : m.existing_df[k] \in Range(c)
            /\ \A k \in 1..Len(m.df) :
                  m.df[k].ts \notin Timestamps(m.existing_df)
                      => m.df[k] \in Range(c)
            /\ Len(c) = Len(m.existing_df) + Len(m.df)
                            - Cardinality(Overlap(m))

\* a batch of another exchange with a stored and a new timestamp
C10_Witness ==
    /\ LastMerge.merged
    /\ \E a \in 1..Len(LastMerge.existing_df), b \in 1..Len(LastMerge.df) :
          /\ LastMerge.existing_df[a].ts = LastMerge.df[b].ts
          /\ LastMerge.existing_df[a].val # LastMerge.df[b].val
    /\ Len(LastMerge.combined_df) > Len(LastMerge.existing_df)

----------------------------------------------------------------------------
(* Stored series *)

\* what load_ohlcv_data(symbol, timeframe) returns now
LoadedNow == load_ohlcv_data(db_type, table, files, listing, TRUE)

\* C11: between backfill runs the frame load_ohlcv_data returns has strictly
\* increasing timestamps, hence no timestamp twice.
C11_LoadedStrictlyIncreasing ==
    pc = "idle" =>
        \A df \in { LoadedNow } :
            df # NoneDf =>
                \A a \in 1..(Len(df) - 1) : df[a].ts < df[a + 1].ts

\* C12: after a save that returned True, load_ohlcv_data(symbol, timeframe)
\* returns the frame that was saved.
C12_SaveThenLoad ==
    (LastMerge.merged /\ LastMerge.saved) =>
        LoadedNow = LastMerge.combined_df

----------------------------------------------------------------------------
(* Gap detection *)

\* the timestamps of the frame get_missing_timeframes was called on
GapTs == IF gap.df = NoneDf THEN {} ELSE Timestamps(gap.df)

\* the call was made on a frame with rows
GapStored == gap.called /\ GapTs # {}

GapFirst == Min(GapTs)

GapLast == Max(GapTs)

GapInterval == Interval(gap.timeframe)

\* the ranges returned
Reported == Range(gap.missing)

\* the pairs (prev, next) of stored timestamps with none stored in between
Consecutive ==
    { pr \in GapTs \X GapTs :
        /\ pr[1] < pr[2]
        /\ \A t \in GapTs : ~(pr[1] < t /\ t < pr[2]) }

\* C13: on a series that is absent or empty the one range returned is the
\* range asked for.
C13_EmptySeriesWholeRange ==
    (gap.called /\ (gap.df = NoneDf \/ gap.df = << >>)) =>
        gap.missing = << << gap.start_time, gap.end_time >> >>

\* load_ohlcv_data returned None
C13_Witness ==
    /\ gap.called
    /\ gap.df = NoneDf
    /\ Len(gap.missing) = 1

\* C14: for consecutive stored timestamps (prev, next) the range
\* (prev + interval, next) is returned exactly when next > prev + 2*interval;
\* a pair no further apart has no range starting between its timestamps.
C14_InteriorGapIffBeyondTolerance ==
    GapStored =>
        \A pr \in Consecutive :
            /\ (<< pr[1] + GapInterval, pr[2] >> \in Reported)
                   <=> (pr[2] > pr[1] + 2 * GapInterval)
            /\ (pr[2] <= pr[1] + 2 * GapInterval) =>
                   \A r \in Reported : ~(pr[1] < r[1] /\ r[1] < pr[2])

\* one pair exactly two intervals apart, one pair further apart
C14_Witness ==
    /\ GapStored
    /\ \E pr \in Consecutive : pr[2] = pr[1] + 2 * GapInterval
    /\ \E pr \in Consecutive :
          /\ pr[2] > pr[1] + 2 * GapInterval
          /\ << pr[1] + GapInterval, pr[2] >> \in Reported

\* the series has candles at T0, T0 + 1h and T0 + d hours, timeframe "1h"
ThreeCandles(T0, d) ==
    /\ gap.called
    /\ gap.timeframe = "1h"
    /\ GapTs = { T0, T0 + 1, T0 + d }

\* C15 as stated: candles at T0, T0+1h, T0+3h with timeframe "1h" have the
\* interior range (T0+2h, T0+3h) returned.
C15_OneSlotGapReported ==
    \A T0 \in GapTimes :
        ThreeCandles(T0, 3) => << T0 + 2, T0 + 3 >> \in Reported

\* C15 amended: candles at T0, T0+1h, T0+3h with timeframe "1h" have no
\* interior range returned, T0+3h being exactly two intervals after T0+1h;
\* candles at T0, T0+1h, T0+4h have the one interior range (T0+2h, T0+4h).
C15_OneSlotGapTolerated ==
    \A T0 \in GapTimes :
        /\ ThreeCandles(T0, 3) =>
              \A r \in Reported : r[2] <= T0 \/ r[1] > T0 + 3
        /\ ThreeCandles(T0, 4) =>
              \A r \in Reported :
                  r[2] <= T0 \/ r[1] > T0 + 4 \/ r = << T0 + 2, T0 + 4 >>
        /\ ThreeCandles(T0, 4) => << T0 + 2, T0 + 4 >> \in Reported

\* candles at 1, 2 and 4 in the range [1, 5): nothing is returned
C15_Witness ==
    /\ ThreeCandles(1, 3)
    /\ gap.start_time = 1
    /\ gap.end_time = 5
    /\ gap.missing = << >>

\* the first range returned is (start_time, first stored timestamp)
LeadingReported ==
    /\ gap.missing # << >>
    /\ gap.missing[1] = << gap.start_time, GapFirst >>

\* C16 as stated: (start_time, first) is returned as the first range exactly
\* when the first stored timestamp is after start_time, and otherwise no
\* range returned starts at start_time.
C16_LeadingGapOrNoneAtStart ==
    GapStored =>
        /\ LeadingReported <=> (GapFirst > gap.start_time)
        /\ (GapFirst <= gap.start_time) =>
              \A r \in Reported : r[1] # gap.start_time

\* C16 amended: (start_time, first) is returned as the first range exactly
\* when the first stored timestamp is after start_time; otherwise every
\* range returned is an interior or a trailing one, which starts one
\* interval after a stored timestamp, and that can be start_time itself.
C16_LeadingGapIffLater ==
    GapStored =>
        /\ LeadingReported <=> (GapFirst > gap.start_time)
        /\ (GapFirst <= gap.start_time) =>
              \A r \in Reported : \E t \in GapTs : r[1] = t + GapInterval

\* a leading range followed by further ranges
C16_Witness ==
    /\ GapStored
    /\ GapFirst > gap.start_time
    /\ LeadingReported
    /\ Len(gap.missing) = 3

\* the last range returned is (last stored timestamp + interval, end_time)
TrailingReported ==
    /\ gap.missing # << >>
    /\ gap.missing[Len(gap.missing)] = << GapLast + GapInterval, gap.end_time >>

\* C17: (last + interval, end_time) is returned as the last range exactly
\* when the last stored timestamp is more than one interval before
\* end_time; otherwise no range returned starts after the last stored
\* timestamp.
C17_TrailingGapIffBeyondInterval ==
    GapStored =>
        /\ TrailingReported <=> (GapLast < gap.end_time - GapInterval)
        /\ ~(GapLast < gap.end_time - GapInterval) =>
              \A r \in Reported : r[1] <= GapLast

\* a trailing range behind an interior one, timeframe "2h"
C17_Witness ==
    /\ GapStored
    /\ gap.timeframe = "2h"
    /\ GapFirst <= gap.start_time
    /\ Len(gap.missing) = 2
    /\ TrailingReported

\* C18 as stated: the ranges returned are in chronological order, do not
\* overlap, have start < end and lie inside [start_time, end_time].
C18_RangesInsideRequested ==
    gap.called =>
        /\ \A r \in Reported :
              /\ r[1] < r[2]
              /\ gap.start_time <= r[1]
              /\ r[2] <= gap.end_time
        /\ \A a, b \in 1..Len(gap.missing) :
              a < b => gap.missing[a][2] <= gap.missing[b][1]

\* the candle slots of the range asked for
Slots ==
    { t \in gap.start_time..(gap.end_time - 1) :
        (t - gap.start_time) % GapInterval = 0 }

\* slot t lies in a range returned
Covered(t) == \E r \in Reported : r[1] <= t /\ t < r[2]

\* no stored timestamp lies in a range returned, and no two ranges overlap
RangesApart ==
    /\ \A t \in GapTs : ~Covered(t)
    /\ \A a, b \in 1..Len(gap.missing) :
          a < b => gap.missing[a][2] <= gap.missing[b][1]

OnGrid == \A t \in GapTs : (t - gap.start_time) % GapInterval = 0

\* slot t lies between two stored timestamps no more than two intervals apart
Tolerated(t) ==
    \E pr \in Consecutive :
        /\ pr[1] < t
        /\ t < pr[2]
        /\ pr[2] <= pr[1] + 2 * GapInterval

NoGaps == \A pr \in Consecutive : pr[2] - pr[1] < 2 * GapInterval

\* C20: for a series without a gap of two intervals or more and a range
\* inside its span, nothing is returned.
C20_NothingMissingInsideSpan ==
    (GapStored /\ NoGaps /\ GapFirst <= gap.start_time
              /\ gap.end_time <= GapLast)
        => gap.missing = << >>

\* three candles off the "2h" grid, the range from the first to the last
C20_Witness ==
    /\ GapStored
    /\ NoGaps
    /\ gap.timeframe = "2h"
    /\ Cardinality(GapTs) = 3
    /\ GapFirst = gap.start_time
    /\ gap.end_time = GapLast
    /\ \E pr \in Consecutive : pr[2] - pr[1] = 3
    /\ gap.missing = << >>

-----------------------------------------------------------------------------
(* Empty answers, fallback, the ranked list *)

\* the attempts of the last call whose exchange answered without an error
\* and without a row
EmptyAttempts ==
    { i \in 1..Len(last.asked) :
        last.asked[i].kind = "rows" /\ last.asked[i].n = 0 }

\* the attempt after attempt i went to the next exchange of the list
NextTried(i) ==
    /\ Len(last.log) > i
    /\ last.log[i + 1].provider = last.exchanges[i + 1]

\* the exchange of attempt i is not what the call returned, and the call
\* did not move it to the front of the list recorded for the key
NotPromoted(i) ==
    /\ last.exchange_id # last.log[i].provider
    /\ ByMain =>
          IF Succeeded
          THEN /\ cache[last.key][1] # last.log[i].provider
               /\ cache = save_success_exchange_NoRemove(last.cache_before,
                              last.key, last.exchange_id)
                  \/ cache = save_success_exchange(last.cache_before,
                                 last.key, last.exchange_id)
          ELSE cache = last.cache_before

\* C21 as stated: an answer with zero rows and no error is a failure of the
\* class "empty": the exchange is not promoted, the empty answer is not
\* returned, and where fallback is on the next exchange in rank order is tried.
C21_EmptyIsEmptyResult ==
    Called =>
        \A i \in EmptyAttempts :
            /\ last.log[i].outcome = "empty"
            /\ last.exchange_id # last.log[i].provider
            /\ (last.auto_fallback /\ i < Len(last.exchanges)) => NextTried(i)

\* C21 amended: an answer with zero rows and no error is a failure: the
\* exchange is not promoted, the empty answer is not returned, and where
\* fallback is on the next exchange in rank order is tried.
\* fetch_ohlcv_from_multiple_exchanges reports it as empty data; fetch_data
\* raises an exception for it that its catch-all clause handles, so there it
\* is an unknown error, and without auto_fallback it ends the call.
C21_EmptyIsFailure ==
    Called =>
        \A i \in EmptyAttempts :
            /\ last.log[i].outcome = (IF ByMain THEN "empty" ELSE "unknown")
            /\ NotPromoted(i)
            /\ Succeeded => Len(last.df) > 0
            /\ (last.auto_fallback /\ i < Len(last.exchanges)) => NextTried(i)
            /\ ~last.auto_fallback =>
                  (Len(last.log) = i /\ last.raised
                     /\ last.report = << last.log[i] >>)

\* the first exchange answers without rows, the second one with rows; and a
\* fetch_data call whose first exchange answers without rows
C21_Witness ==
    /\ ByMain
    /\ 1 \in EmptyAttempts
    /\ Succeeded
    /\ Len(last.log) = 2
    /\ cache[last.key] # last.cache_before[last.key]

\* C22: fetch_data without auto_fallback ends at the first failed attempt,
\* whatever its class: it raises with that attempt's error and no other
\* exchange is attempted.  With auto_fallback every class of failure is
\* followed by an attempt on the next exchange of the list.
C22_FallbackSwitch ==
    ByCore =>
        /\ Len(last.log) >= 1
        /\ \A i \in 1..Len(last.log) :
              last.log[i].provider = last.exchanges[i]
        /\ \A i \in 1..(Len(last.log) - 1) :
              last.log[i].outcome # "success"
        /\ ~last.auto_fallback =>
              /\ Len(last.log) = 1
              /\ last.log[1].outcome # "success" =>
                    /\ last.raised
                    /\ last.exchange_id = None
                    /\ last.report = << last.log[1] >>
        /\ last.auto_fallback =>
              \A i \in 1..Len(last.log) :
                  (last.log[i].outcome # "success"
                     /\ i < Len(last.exchanges)) => NextTried(i)
        /\ last.raised <=> last.log[Len(last.log)].outcome # "success"

\* the classes of failure of the attempts of the last call
FailureClasses ==
    { last.log[i].outcome : i \in 1..Len(last.log) } \ {"success"}

\* without auto_fallback a network error of the first of three exchanges
\* ends the call
C22_Witness ==
    /\ ByCore
    /\ ~last.auto_fallback
    /\ Len(last.exchanges) = 3
    /\ last.log[1].outcome = "network"
    /\ last.raised

\* with auto_fallback three attempts of three different classes
C22_WitnessFallback ==
    /\ ByCore
    /\ last.auto_fallback
    /\ Len(last.log) = 3
    /\ Cardinality(FailureClasses) = 3

\* what TOP_EXCHANGES has beyond the list recorded for the key, in the
\* order of TOP_EXCHANGES
RestOfTop(recorded) ==
    Filter(TOP_EXCHANGES, Range(TOP_EXCHANGES) \ Range(recorded))

\* C23 as stated: the ranked list is the list recorded for the key where
\* there is one, TOP_EXCHANGES otherwise; the lookup leaves the cache alone.
C23_PersistedOrDefault ==
    ByMain =>
        /\ last.exchanges =
              (IF last.cache_before[last.key] # << >>
               THEN last.cache_before[last.key] ELSE TOP_EXCHANGES)
        /\ ~Succeeded => cache = last.cache_before

\* C23 amended: the ranked list is the list recorded for the key followed
\* by the exchanges of TOP_EXCHANGES that are not in it, in their default
\* order, so TOP_EXCHANGES itself where nothing is recorded; the lookup
\* leaves the cache alone.
C23_PersistedThenDefaults ==
    ByMain =>
        /\ last.exchanges =
              last.cache_before[last.key]
                 \o RestOfTop(last.cache_before[last.key])
        /\ last.cache_before[last.key] = << >> =>
              last.exchanges = TOP_EXCHANGES
        /\ ~Succeeded => cache = last.cache_before

\* one exchange is recorded for the key, which is not the first of
\* TOP_EXCHANGES; the call fails on all three
C23_Witness ==
    /\ ByMain
    /\ Len(last.cache_before[last.key]) = 1
    /\ last.cache_before[last.key][1] # TOP_EXCHANGES[1]
    /\ Len(last.exchanges) = 3
    /\ ~Succeeded

-----------------------------------------------------------------------------
(* What changes the ranking *)

ByMarkets == last.fn = "get_markets_from_multiple_exchanges"

\* the keys whose recorded list the last call changed
ChangedKeys == { k \in Keys : cache[k] # last.cache_before[k] }

\* C30 as stated: the list recorded for a key is changed only by a
\* successful OHLCV fetch for that key; failed attempts, fetches for other
\* keys and market lookups leave it as it was.
C30_OnlyOHLCVSuccess ==
    Called =>
        \A k \in ChangedKeys : ByMain /\ Succeeded /\ last.key = k

\* what holds in the code: a call changes at most the list of its own key,
\* and only when it succeeded; the key of a market lookup is "1d"
C30_OnlyOwnKeyOnSuccess ==
    Called =>
        \A k \in ChangedKeys : Succeeded /\ last.key = k

\* a market lookup that changed the list recorded for "1d"
C30_MarketsPromote ==
    /\ ByMarkets
    /\ "1d" \in ChangedKeys
    /\ last.cache_before["1d"] # << >>

-----------------------------------------------------------------------------
(* Failed saves, stored rows *)

\* existing_df as the last run had it before its loop
StartSeries ==
    IF done.loaded_before = NoneDf THEN << >> ELSE done.loaded_before

\* the ranges of the last run that were fetched but whose save failed
FailedSaves ==
    { k \in 1..Len(done.fetches) :
        done.fetches[k].fetched /\ ~done.fetches[k].saved }

\* C28: a range that is fetched but whose save fails is not counted as
\* filled and does not advance existing_df: a run whose fetched ranges all
\* failed to save returns False, and a later range of the run is merged into
\* existing_df as it was before the failed save.
C28_FailedSaveNotCounted ==
    /\ (pc = "ranges" /\ job.merge.merged /\ ~job.merge.saved)
          => job.existing_df = job.merge.existing_df
    /\ (pc = "ranges" /\ job.merge.merged /\ job.merge.saved)
          => job.existing_df = job.merge.combined_df
    /\ (pc = "ranges" /\ \A k \in 1..Len(job.fetches) : ~job.fetches[k].saved)
          => (~job.success /\ job.existing_df = (IF job.loaded_before = NoneDf
                                                 THEN << >>
                                                 ELSE job.loaded_before))
    /\ (Returned /\ done.missing # << >> /\ Filled = {}) => ~done.ret
    /\ (Returned /\ done.merge.merged
          /\ \A k \in 1..(Len(done.fetches) - 1) : ~done.fetches[k].saved)
          => done.merge.existing_df = StartSeries

\* the first of two ranges is fetched but not saved, the second is fetched
\* and merged into the stored rows of before the run
C28_Witness ==
    /\ Returned
    /\ Len(done.fetches) = 2
    /\ 1 \in FailedSaves
    /\ done.fetches[2].fetched
    /\ done.merge.existing_df = StartSeries
    /\ StartSeries # << >>
    /\ done.fetches[1].fresh

\* C29: every row load_ohlcv_data returned before a run is a row of what it
\* returns after the run, with the values it had.
C29_StoredRowsKept ==
    (Returned /\ done.loaded_before # NoneDf) =>
        /\ done.loaded_after # NoneDf
        /\ \A k \in 1..Len(done.loaded_before) :
              \E m \in 1..Len(done.loaded_after) :
                  done.loaded_after[m] = done.loaded_before[k]

\* the second run fetches from another exchange a stored timestamp and a
\* new one, and what is loaded after it has more rows than before
C29_Witness ==
    /\ Returned
    /\ done.n = 2
    /\ done.loaded_before # NoneDf
    /\ done.merge.merged
    /\ done.merge.saved
    /\ Overlap(done.merge) # {}
    /\ \E t \in Overlap(done.merge) :
          \E a \in 1..Len(done.merge.df), b \in 1..Len(done.merge.existing_df) :
              /\ done.merge.df[a].ts = t
              /\ done.merge.existing_df[b].ts = t
              /\ done.merge.df[a].val # done.merge.existing_df[b].val
    /\ Len(done.loaded_after) > Len(done.loaded_before)

-----------------------------------------------------------------------------
(* The number of candles asked for *)

\* the candles of the timeframe it takes to cover [a, b) from a on
Needed(a, b) == ((b - a) + Interval(tf) - 1) \div Interval(tf)

\* the length of [a, b) is a whole number of intervals
WholeIntervals(a, b) == (b - a) % Interval(tf) = 0

\* one request was made for each missing range, with since the start of
\* the range
OneRequestEach ==
    /\ Len(done.fetches) = Len(done.missing)
    /\ \A k \in 1..Len(done.missing) :
          done.fetches[k].since = done.missing[k][1]

\* C27 as stated: one request for each missing range, with since the start
\* of the range and as limit the number of candles needed to cover the
\* range, capped at PageLimit; the limit is between 1 and PageLimit.
C27_LimitIsNeeded ==
    Returned =>
        /\ OneRequestEach
        /\ \A k \in 1..Len(done.fetches) :
              /\ done.fetches[k].limit =
                    MinOf(Needed(done.missing[k][1], done.missing[k][2]),
                          PageLimit)
              /\ done.fetches[k].limit \in 1..PageLimit

\* C27 amended: one request for each missing range, with since the start of
\* the range and as limit the whole number of intervals in the range plus
\* one, capped at PageLimit: the number of candles needed to cover the
\* range, and one more when the length of the range is a whole number of
\* intervals.  The limit is between 1 and PageLimit, and a range that needs
\* more than PageLimit candles gets its one request like any other.
C27_LimitIsIntervalsPlusOne ==
    Returned =>
        /\ OneRequestEach
        /\ \A k \in 1..Len(done.fetches) :
              \E a \in { done.missing[k][1] }, b \in { done.missing[k][2] } :
                 /\ done.fetches[k].limit =
                       (IF WholeIntervals(a, b)
                        THEN MinOf(Needed(a, b) + 1, PageLimit)
                        ELSE MinOf(Needed(a, b), PageLimit))
                 /\ done.fetches[k].limit \in 1..PageLimit

\* a run with two missing ranges, the second of which needs more than
\* PageLimit candles and is asked for once, with PageLimit
C27_Witness ==
    /\ Returned
    /\ Len(done.missing) = 2
    /\ Needed(done.missing[2][1], done.missing[2][2]) > PageLimit
    /\ done.fetches[2].limit = PageLimit
    /\ done.fetches[1].limit < PageLimit

\* a range whose length is not a whole number of intervals, asked for with
\* as many candles as it takes to cover it
C27_WitnessExact ==
    /\ Returned
    /\ tf = "1d"
    /\ Len(done.missing) = 1
    /\ ~WholeIntervals(done.missing[1][1], done.missing[1][2])
    /\ done.fetches[1].limit = Needed(done.missing[1][1], done.missing[1][2])

-----------------------------------------------------------------------------
(* After a crash *)

Crashed == crash.n > 0

\* the run that followed the crashed one has returned
NextRunReturned ==
    /\ Crashed
    /\ Returned
    /\ done.n = crash.n + 1
    /\ done.start_time = crash.start_time
    /\ done.end_time = crash.end_time

\* the run that followed the crashed one found the range the crashed run
\* was fetching missing again
GapFoundAgain == \E k \in 1..Len(done.missing) : done.missing[k] = crash.gap

\* and asked for it
GapRetried ==
    \E k \in 1..Len(done.fetches) :
        /\ done.missing[k] = crash.gap
        /\ done.fetches[k].since = crash.gap[1]

\* what is stored is what was stored before the fetch, and the next run
\* starts from what is stored alone
NothingCarriedOver ==
    /\ Crashed => crash.loaded_after = crash.loaded_at_fetch
    /\ (Crashed /\ runs = crash.n) => (pc = "idle" /\ job = NoJob)
    /\ NextRunReturned =>
          /\ done.loaded_before = crash.loaded_after
          /\ done.missing = get_missing_timeframes(crash.loaded_after, tf,
                                done.start_time, done.end_time)
          /\ Len(done.fetches) = Len(done.missing)

\* C24 as stated: a crash between the fetch and the save of a range leaves
\* what is stored as it was before the fetch; the next run over the same
\* range finds that range missing again and asks for it; the run starts
\* from what is stored alone.
C24_GapFoundAgain ==
    /\ NothingCarriedOver
    /\ NextRunReturned => (GapFoundAgain /\ GapRetried)

\* C24 amended: a crash between the fetch and the save of a range leaves
\* what is stored as it was before the fetch; the next run over the same
\* range computes its missing ranges from what is stored alone; they
\* contain the range the crashed run was fetching, and it is asked for
\* again, when the crashed run had saved nothing before it died.
C24_GapFoundAgainUnlessSaved ==
    /\ NothingCarriedOver
    /\ (NextRunReturned /\ ~crash.saved_before)
          => (GapFoundAgain /\ GapRetried)
    /\ (NextRunReturned /\ GapFoundAgain) => GapRetried

\* the crashed run had a stored candle before its range, died while it
\* fetched the range after it, and the next run asks for both ranges again
C24_Witness ==
    /\ NextRunReturned
    /\ ~crash.saved_before
    /\ crash.loaded_after # NoneDf
    /\ Len(done.missing) = 2
    /\ done.missing[2] = crash.gap
    /\ GapRetried
    /\ cache[BackfillTimeframe][1] # TOP_EXCHANGES[1]

-----------------------------------------------------------------------------
(* Lost promotions *)

\* both jobs have written the document
BothWritten == \A j \in JobIds : procs.jobs[j].pc = "done"

\* the jobs in the order of their writes
Writers ==
    LET w == { i \in 1..Len(procs.events) : procs.events[i].op = "write" }
        a == Ascending(w)
    IN  [ i \in 1..Len(a) |-> procs.events[a[i]].job ]

\* the job that wrote first loaded and wrote before the other job loaded
OneAfterTheOther ==
    /\ procs.events[1].job = procs.events[2].job
    /\ procs.events[2].op = "write"

\* the exchange job j promoted is in the list of its key
PromotionKept(j) ==
    procs.jobs[j].exchange_id \in Range(cache[procs.jobs[j].key])

\* C25: each job writes the whole document as it loaded it, with its own
\* promotion: after both jobs the document is what the last writer made of
\* what it had loaded.  The promotion of the first writer is in it when the
\* last writer loaded after that write; when both loaded before either
\* wrote, a promotion of the first writer for another key, or for a key
\* without a list, is lost.
C25_LastWriterWins ==
    BothWritten =>
        \E first \in { Writers[1] }, second \in { Writers[2] } :
            /\ cache = save_success_exchange(procs.jobs[second].doc,
                           procs.jobs[second].key,
                           procs.jobs[second].exchange_id)
            /\ cache[procs.jobs[second].key][1] = procs.jobs[second].exchange_id
            /\ OneAfterTheOther => PromotionKept(first)
            /\ (~OneAfterTheOther
                  /\ procs.jobs[first].exchange_id
                        \notin Range(procs.jobs[second].doc[procs.jobs[first].key])
                  /\ procs.jobs[first].exchange_id
                        # procs.jobs[second].exchange_id)
                  => ~PromotionKept(first)

\* both jobs loaded, then both wrote, and the exchange the first writer
\* promoted is not in its list
C25_Witness ==
    /\ BothWritten
    /\ procs.events[1].op = "load"
    /\ procs.events[2].op = "load"
    /\ ~PromotionKept(Writers[1])
    /\ PromotionKept(Writers[2])

-----------------------------------------------------------------------------
(* Overwritten candles *)

BothDone == \A j \in JobIds : procs.jobs[j].pc = "done"

\* the saves made so far, as places in the events
Saves == { i \in 1..Len(procs.events) : procs.events[i].op = "save" }

\* the last save to the file of exchange e, 0 if there is none
LastSave(e) ==
    Max({ 0 } \cup { i \in Saves : procs.events[i].exchange_id = e })

\* the place of the load of job j in the events
LoadOf(j) ==
    Min({ i \in 1..Len(procs.events) :
            procs.events[i].op = "load" /\ procs.events[i].job = j })

\* save a was made by one job, save b later by the other job to the same
\* file, and the job of b had loaded the series before a
SlowWriter(a, b) ==
    /\ a < b
    /\ procs.events[a].job # procs.events[b].job
    /\ procs.events[a].exchange_id = procs.events[b].exchange_id
    /\ LoadOf(procs.events[b].job) < a

\* a row written by save a is not in the file now
RowsLost(a) ==
    \E k \in 1..Len(procs.events[a].combined_df) :
        procs.events[a].combined_df[k]
            \notin Range(files[procs.events[a].exchange_id])

\* C26: a save writes the whole file of the exchange from the existing_df
\* of the job, so each file holds exactly the frame of the last save made to
\* it, whatever was saved to it in between; a job that loaded the series
\* before a save of the other job and saves to the same file later leaves a
\* file without the rows it has not fetched itself.
C26_FileIsLastSave ==
    /\ \A e \in Range(TOP_EXCHANGES) :
          \E i \in { LastSave(e) } :
             IF i = 0 THEN files[e] = NoneDf
             ELSE files[e] = procs.events[i].combined_df
    /\ \A a \in Saves, b \in Saves :
          (SlowWriter(a, b) /\ LastSave(procs.events[b].exchange_id) = b
             /\ Timestamps(procs.events[a].combined_df)
                   \ Timestamps(procs.events[b].combined_df) # {})
             => RowsLost(a)

\* the job that loaded first saved last, to the file the other job had
\* saved to, and rows of that save are gone from what is loaded now
C26_Witness ==
    /\ BothDone
    /\ \E a \in Saves, b \in Saves :
          /\ SlowWriter(a, b)
          /\ LoadOf(procs.events[b].job) < LoadOf(procs.events[a].job)
          /\ RowsLost(a)
          /\ load_ohlcv_data(db_type, table, files, listing, TRUE)
                = procs.events[b].combined_df

============================================================================
